---- MODULE Spec2Model ----
(***************************************************************************)
(* FeatureManager of src/src/managers/features.rs: a cache of feature      *)
(* records filled once by a background Loader task, and the two futures    *)
(* (FeatureListFuture, FeatureFuture) that callers poll against it.        *)
(*                                                                         *)
(* A step of the model is one stretch of code that runs without another    *)
(* task being able to observe or change what it touches: a critical        *)
(* section of load_progress, one DashMap operation, or the code between    *)
(* two await points that touches only the environment.                     *)
(***************************************************************************)
EXTENDS Integers, Sequences, FiniteSets, TLC

(* ------------------------------ bounds --------------------------------- *)

\* number of query futures (get_feature / all_features calls) in a run
NumQueries == 2
\* number of load_feature invocations made besides the directory scan
NumEager == 1
\* polls of a pending future that no wake caused (select!/join! re-polls)
MaxRepoll == 1

(* --------------------------- the environment --------------------------- *)

\* file names that static/features may hold
FileNames == {"a.json", "b.json"}
\* the keys callers ask for: the file names, a name that is in no directory,
\* and "a", the stem of a.json
Keys == FileNames \cup {"c.json", "a"}
\* what a directory entry of a given name is
Kinds == {"missing", "valid", "malformed", "notfile"}

Queries == 1 .. NumQueries
\* task 0 is the Loader spawned by new(); the others call load_feature alone
Loader == 0
Tasks == 0 .. NumEager
ListTarget == "*list*"
Targets == {ListTarget} \cup Keys

VARIABLES
    dir,            \* the directory static/features: file name -> kind
    cache,          \* FeatureManager.cache: key -> <<>> or <<feature>>
    load_progress,  \* FeatureManager.load_progress
    done_wakers,    \* FeatureManager.done_wakers: sequence of wakers
    feature_wakers, \* FeatureManager.feature_wakers: key -> sequence of wakers
    loader,         \* position of load_all_features
    lf,             \* per task: position and locals of its load_feature call
    query,          \* per query future: target, position, result
    reads,          \* per key: how many times its file was read
    repolls         \* spurious polls made so far

vars == <<dir, cache, load_progress, done_wakers, feature_wakers, loader, lf,
          query, reads, repolls>>

(* ------------------------------ data ----------------------------------- *)

\* Option<T>: None is <<>>, Some(x) is <<x>>
None == <<>>
Some(x) == <<x>>

\* the text of the file `name` (only files have one)
FileContent(name) ==
    IF dir[name] = "valid" THEN [json |-> TRUE, text |-> name]
    ELSE [json |-> FALSE, text |-> name]

\* a parser that accepts every text
ParseAnything(content) == [ok |-> TRUE, feature |-> [def |-> content.text]]

\* serde_json::from_str::<Feature>: Ok(feature) or Err
Parse(content) ==
    IF content.json THEN [ok |-> TRUE, feature |-> [def |-> content.text]]
    ELSE [ok |-> FALSE]

\* the key load_all_features derives from a directory entry
EntryKey(fileName) == fileName

\* LoadProgress
Loading(features) == [tag |-> "Loading", features |-> features]
Done == [tag |-> "Done"]

\* is_done with the pattern matching every variant
is_done_any(p) == p.tag \in {"Done", "Loading"}

\* is_done with the variants taken for one another
is_done_inverted(p) == p.tag = "Loading"

\* LoadProgress::is_done; the `LoadProgress::Done =>` arms test the same
is_done(p) == p.tag = "Done"

\* the directory entries
Entries == {n \in FileNames : dir[n] # "missing"}

IdleCall == [pc |-> "idle", name |-> "", claimed |-> FALSE, woke |-> FALSE,
             feature |-> None]

(* ------------------------ wakers and polling --------------------------- *)

\* Waker::wake on the task of a query: a suspended task is scheduled for
\* another poll; a task inside poll is polled again after it returns Pending
Woken(r) ==
    IF r.pc = "pending" THEN [r EXCEPT !.pc = "start"]
    ELSE IF r.pc \in {"checked", "insert"} THEN [r EXCEPT !.notified = TRUE]
    ELSE r

\* the wakers in a Vec<Waker>
WakersIn(vec) == {vec[i] : i \in 1 .. Len(vec)}

\* `for waker in wakers { waker.wake() }`
WakeEach(qry, wakers) ==
    [q \in Queries |-> IF q \in wakers THEN Woken(qry[q]) ELSE qry[q]]

\* poll returns Poll::Pending
Suspend(r) ==
    IF r.notified THEN [r EXCEPT !.pc = "start", !.notified = FALSE]
    ELSE [r EXCEPT !.pc = "pending"]

\* poll returns Poll::Ready(value)
Resolve(r, value) == [r EXCEPT !.pc = "ready", !.result = value]

RECURSIVE SeqOf(_)
\* the elements of a finite set, each once, in the order an iterator yields
SeqOf(S) ==
    IF S = {} THEN <<>>
    ELSE LET k == CHOOSE x \in S : TRUE IN <<k>> \o SeqOf(S \ {k})

\* cache.iter().map(|kv| kv.value().clone()).collect()
Snapshot(c) ==
    LET ks == SeqOf({k \in DOMAIN c : c[k] # None})
    IN  [i \in 1 .. Len(ks) |-> c[ks[i]][1]]

\* a lookup that ignores the key and yields a cached feature if there is one
LookupAny(c, key) ==
    IF \E k \in DOMAIN c : c[k] # None
    THEN c[CHOOSE k \in DOMAIN c : c[k] # None]
    ELSE None

\* cache.get(&feature_name).as_deref().cloned()
Lookup(c, key) == c[key]

\* the load_progress mutex is free: load_all_features keeps its guard from
\* line 137 to the end of the function
ProgressUnlocked == loader.pc # "wake_features"

(* ------------------------------- Init ---------------------------------- *)

Rank(target) ==
    CASE target = ListTarget -> 0
      [] target = "a.json" -> 1
      [] target = "b.json" -> 2
      [] target = "c.json" -> 3
      [] OTHER -> 4

\* the state FeatureManager::new() builds, for any directory and any choice
\* of queries (queries are interchangeable, so their targets are taken in
\* rank order)
Init ==
    /\ dir \in [FileNames -> Kinds]
    /\ cache = [k \in Keys |-> None]
    /\ load_progress = Loading({})
    /\ done_wakers = <<>>
    /\ feature_wakers = [k \in {} |-> <<>>]
    /\ loader = [pc |-> "read_dir", scanned |-> {}]
    /\ lf = [t \in Tasks |-> IdleCall]
    /\ \E tg \in [Queries -> Targets] :
        /\ \A q \in Queries :
              q + 1 \in Queries => Rank(tg[q]) <= Rank(tg[q + 1])
        /\ query = [q \in Queries |->
                      [target |-> tg[q], pc |-> "start", notified |-> FALSE,
                       result |-> None]]
    /\ reads = [k \in Keys |-> 0]
    /\ repolls = 0

(* ------------------------ load_all_features ---------------------------- *)

\* read_dir("static/features") succeeds
ReadDirOk ==
    /\ loader.pc = "read_dir"
    /\ loader' = [loader EXCEPT !.pc = "loop"]
    /\ UNCHANGED <<dir, cache, load_progress, done_wakers, feature_wakers, lf,
                   query, reads, repolls>>

\* read_dir fails: unwrap() panics and the Loader task ends
ReadDirFail ==
    /\ loader.pc = "read_dir"
    /\ loader' = [loader EXCEPT !.pc = "panicked"]
    /\ UNCHANGED <<dir, cache, load_progress, done_wakers, feature_wakers, lf,
                   query, reads, repolls>>

\* a loop that goes on without awaiting load_feature
LoopReadyNoAwait == loader.pc = "loop"

\* the previous load_feature(..).await of the loop, if any, has returned
LoopReady == loader.pc = "loop" /\ lf[Loader].pc \in {"idle", "returned"}

\* next_entry() yields a regular file: load_feature(file_name) is called
NextEntryFile(n) ==
    /\ LoopReady
    /\ n \in Entries \ loader.scanned
    /\ dir[n] \in {"valid", "malformed"}
    /\ loader' = [loader EXCEPT !.scanned = @ \cup {n}]
    /\ lf' = [lf EXCEPT ![Loader] =
                [IdleCall EXCEPT !.pc = "claim", !.name = EntryKey(n)]]
    /\ UNCHANGED <<dir, cache, load_progress, done_wakers, feature_wakers,
                   query, reads, repolls>>

\* next_entry() yields an entry that is no regular file, or one whose
\* metadata() fails: the entry is skipped
NextEntrySkip(n) ==
    /\ LoopReady
    /\ n \in Entries \ loader.scanned
    /\ loader' = [loader EXCEPT !.scanned = @ \cup {n}]
    /\ lf' = [lf EXCEPT ![Loader] = IdleCall]
    /\ UNCHANGED <<dir, cache, load_progress, done_wakers, feature_wakers,
                   query, reads, repolls>>

\* next_entry() fails: unwrap() panics and the Loader task ends
NextEntryFail ==
    /\ LoopReady
    /\ loader' = [loader EXCEPT !.pc = "panicked"]
    /\ UNCHANGED <<dir, cache, load_progress, done_wakers, feature_wakers, lf,
                   query, reads, repolls>>

\* next_entry() yields None: the loop ends
NextEntryNone ==
    /\ LoopReady
    /\ Entries \subseteq loader.scanned
    /\ loader' = [loader EXCEPT !.pc = "finish"]
    /\ UNCHANGED <<dir, cache, load_progress, done_wakers, feature_wakers, lf,
                   query, reads, repolls>>

\* a finish that sets progress to Done and leaves the done_wakers asleep
FinishWithoutWake ==
    /\ loader.pc = "finish"
    /\ load_progress' = Done
    /\ loader' = [loader EXCEPT !.pc = "wake_features"]
    /\ UNCHANGED <<dir, cache, done_wakers, feature_wakers, lf, query, reads,
                   repolls>>

\* lines 137-142: lock load_progress, set it Done, wake the done_wakers
Finish ==
    /\ loader.pc = "finish"
    /\ load_progress' = Done
    /\ query' = WakeEach(query, WakersIn(done_wakers))
    /\ loader' = [loader EXCEPT !.pc = "wake_features"]
    /\ UNCHANGED <<dir, cache, done_wakers, feature_wakers, lf, reads, repolls>>

\* lines 144-148: wake every waker of a clone of feature_wakers, then drop
\* the load_progress guard
WakeFeatures ==
    /\ loader.pc = "wake_features"
    /\ query' = WakeEach(query,
                    UNION {WakersIn(feature_wakers[k]) : k \in DOMAIN feature_wakers})
    /\ loader' = [loader EXCEPT !.pc = "done"]
    /\ UNCHANGED <<dir, cache, load_progress, done_wakers, feature_wakers, lf,
                   reads, repolls>>

(* --------------------------- load_feature ------------------------------ *)

\* lines 158-162: the claim of feature_name in the in-flight set
Claim(p, name) == Loading(p.features \cup {name})

\* a release that rebuilds the in-flight set whatever the progress is
ReleaseAlways(p, name) ==
    Loading((IF p.tag = "Loading" THEN p.features ELSE {}) \ {name})

\* lines 186-188: the release of feature_name
Release(p, name) ==
    IF p.tag = "Loading" THEN Loading(p.features \ {name}) ELSE p

\* lines 153-165: return if the load is Done or the feature is already being
\* loaded, else claim it
LoadClaim(t) ==
    /\ lf[t].pc = "claim"
    /\ ProgressUnlocked
    /\ IF is_done(load_progress) \/ lf[t].name \in load_progress.features
       THEN /\ lf' = [lf EXCEPT ![t].pc = "returned"]
            /\ UNCHANGED load_progress
       ELSE /\ load_progress' = Claim(load_progress, lf[t].name)
            /\ lf' = [lf EXCEPT ![t].pc = "read", ![t].claimed = TRUE]
    /\ UNCHANGED <<dir, cache, done_wakers, feature_wakers, loader, query,
                   reads, repolls>>

\* lines 168-177: the file is read and parsed; a parse error is logged and
\* load_feature returns
LoadRead(t) ==
    /\ lf[t].pc = "read"
    /\ lf[t].name \in FileNames
    /\ dir[lf[t].name] \in {"valid", "malformed"}
    /\ reads' = [reads EXCEPT ![lf[t].name] = @ + 1]
    /\ LET feature == Parse(FileContent(lf[t].name))
       IN  IF feature.ok
           THEN lf' = [lf EXCEPT ![t].pc = "insert",
                                 ![t].feature = Some(feature.feature)]
           ELSE lf' = [lf EXCEPT ![t].pc = "returned"]
    /\ UNCHANGED <<dir, cache, load_progress, done_wakers, feature_wakers,
                   loader, query, repolls>>

\* lines 168-170: read_to_string fails (no such file, not a file, I/O error):
\* unwrap() panics and the task ends
LoadReadFail(t) ==
    /\ lf[t].pc = "read"
    /\ lf' = [lf EXCEPT ![t].pc = "panicked"]
    /\ loader' = IF t = Loader THEN [loader EXCEPT !.pc = "panicked"] ELSE loader
    /\ UNCHANGED <<dir, cache, load_progress, done_wakers, feature_wakers,
                   query, reads, repolls>>

\* lines 180-181: cache the result
LoadInsert(t) ==
    /\ lf[t].pc = "insert"
    /\ cache' = [cache EXCEPT ![lf[t].name] = lf[t].feature]
    /\ lf' = [lf EXCEPT ![t].pc = "release"]
    /\ UNCHANGED <<dir, load_progress, done_wakers, feature_wakers, loader,
                   query, reads, repolls>>

\* lines 184-189: update the loading progress
LoadRelease(t) ==
    /\ lf[t].pc = "release"
    /\ ProgressUnlocked
    /\ load_progress' = Release(load_progress, lf[t].name)
    /\ lf' = [lf EXCEPT ![t].pc = "wake"]
    /\ UNCHANGED <<dir, cache, done_wakers, feature_wakers, loader, query,
                   reads, repolls>>

\* lines 192-196: wake the wakers registered for feature_name
LoadWake(t) ==
    /\ lf[t].pc = "wake"
    /\ query' = IF lf[t].name \in DOMAIN feature_wakers
                THEN WakeEach(query, WakersIn(feature_wakers[lf[t].name]))
                ELSE query
    /\ lf' = [lf EXCEPT ![t].pc = "returned", ![t].woke = TRUE]
    /\ UNCHANGED <<dir, cache, load_progress, done_wakers, feature_wakers,
                   loader, reads, repolls>>

\* a task other than the Loader calls load_feature(name)
EagerCall(t, name) ==
    /\ t # Loader
    /\ lf[t].pc = "idle"
    /\ lf' = [lf EXCEPT ![t] = [IdleCall EXCEPT !.pc = "claim", !.name = name]]
    /\ UNCHANGED <<dir, cache, load_progress, done_wakers, feature_wakers,
                   loader, query, reads, repolls>>

(* ------------------------- FeatureListFuture --------------------------- *)

\* FeatureListFuture::poll, all of it under the load_progress guard
ListPoll(q) ==
    /\ query[q].target = ListTarget
    /\ query[q].pc = "start"
    /\ ProgressUnlocked
    /\ IF is_done(load_progress)
       THEN /\ query' = [query EXCEPT ![q] = Resolve(@, Snapshot(cache))]
            /\ UNCHANGED done_wakers
       ELSE /\ done_wakers' = Append(done_wakers, q)
            /\ query' = [query EXCEPT ![q] = Suspend(@)]
    /\ UNCHANGED <<dir, cache, load_progress, feature_wakers, loader, lf,
                   reads, repolls>>

(* --------------------------- FeatureFuture ----------------------------- *)

\* a poll that also resolves as soon as the cache holds the name
GetCheckEarly(q) ==
    /\ query[q].target \in Keys
    /\ query[q].pc = "start"
    /\ ProgressUnlocked
    /\ query' = [query EXCEPT ![q] =
                   IF is_done(load_progress) \/ cache[query[q].target] # None
                   THEN Resolve(@, Lookup(cache, query[q].target))
                   ELSE [@ EXCEPT !.pc = "checked"]]
    /\ UNCHANGED <<dir, cache, load_progress, done_wakers, feature_wakers,
                   loader, lf, reads, repolls>>

\* lines 73-80: is_done_loading(), and the result when it is
GetCheck(q) ==
    /\ query[q].target \in Keys
    /\ query[q].pc = "start"
    /\ ProgressUnlocked
    /\ query' = [query EXCEPT ![q] =
                   IF is_done(load_progress)
                   THEN Resolve(@, Lookup(cache, query[q].target))
                   ELSE [@ EXCEPT !.pc = "checked"]]
    /\ UNCHANGED <<dir, cache, load_progress, done_wakers, feature_wakers,
                   loader, lf, reads, repolls>>

\* lines 82-87: feature_wakers.get_mut(name); Some(wakers) gets the waker
\* pushed and poll returns Pending, None goes on to the insert
GetLookup(q) ==
    /\ query[q].pc = "checked"
    /\ IF query[q].target \in DOMAIN feature_wakers
       THEN /\ feature_wakers' =
                  [feature_wakers EXCEPT ![query[q].target] = Append(@, q)]
            /\ query' = [query EXCEPT ![q] = Suspend(@)]
       ELSE /\ query' = [query EXCEPT ![q].pc = "insert"]
            /\ UNCHANGED feature_wakers
    /\ UNCHANGED <<dir, cache, load_progress, done_wakers, loader, lf, reads,
                   repolls>>

\* lines 88-95: feature_wakers.insert(name, vec![waker]); poll returns Pending
GetInsert(q) ==
    /\ query[q].pc = "insert"
    /\ feature_wakers' =
          [k \in DOMAIN feature_wakers \cup {query[q].target} |->
              IF k = query[q].target THEN <<q>> ELSE feature_wakers[k]]
    /\ query' = [query EXCEPT ![q] = Suspend(@)]
    /\ UNCHANGED <<dir, cache, load_progress, done_wakers, loader, lf, reads,
                   repolls>>

\* the scheduler polls a pending future again though no wake occurred
Repoll(q) ==
    /\ query[q].pc = "pending"
    /\ repolls < MaxRepoll
    /\ repolls' = repolls + 1
    /\ query' = [query EXCEPT ![q].pc = "start"]
    /\ UNCHANGED <<dir, cache, load_progress, done_wakers, feature_wakers,
                   loader, lf, reads>>

(* --------------------------- specifications ---------------------------- *)

LoaderStep ==
    \/ ReadDirOk
    \/ ReadDirFail
    \/ \E n \in FileNames : NextEntryFile(n)
    \/ \E n \in FileNames : NextEntrySkip(n)
    \/ NextEntryFail
    \/ NextEntryNone
    \/ Finish
    \/ WakeFeatures

LoadStep(t) ==
    \/ LoadClaim(t)
    \/ LoadRead(t)
    \/ LoadReadFail(t)
    \/ LoadInsert(t)
    \/ LoadRelease(t)
    \/ LoadWake(t)

QueryStep(q) ==
    \/ ListPoll(q)
    \/ GetCheck(q)
    \/ GetLookup(q)
    \/ GetInsert(q)

\* the program as new() wires it: the Loader is the only caller of
\* load_feature, and a query future is polled when created and when woken
Next ==
    \/ LoaderStep
    \/ LoadStep(Loader)
    \/ \E q \in Queries : QueryStep(q)

Spec == Init /\ [][Next]_vars

\* the program when the scheduler may also poll a pending future unwoken
NextRepoll ==
    \/ Next
    \/ \E q \in Queries : Repoll(q)

SpecRepoll == Init /\ [][NextRepoll]_vars

\* the program with further tasks calling load_feature for single names
NextEager ==
    \/ LoaderStep
    \/ \E t \in Tasks : LoadStep(t)
    \/ \E q \in Queries : QueryStep(q)
    \/ \E t \in Tasks, k \in Keys : EagerCall(t, k)

SpecEager == Init /\ [][NextEager]_vars

(* ------------------------------ claims --------------------------------- *)

\* progress is Done
ProgressDone == load_progress.tag = "Done"

GetQueries == {q \in Queries : query[q].target \in Keys}
ListQueries == {q \in Queries : query[q].target = ListTarget}

\* the file names whose content was read and is a well-formed feature
ParsedNames == {k \in FileNames : reads[k] > 0 /\ dir[k] = "valid"}

\* the names a list result holds
NamesOf(result) == {result[i].def : i \in 1 .. Len(result)}

\* C1: once the Loader has run to its end, no get(name) query is left
\* suspended (each resolves), and the get queries of one name that resolved
\* hold the same result.
C1_ConcurrentGetsResolve ==
    loader.pc = "done" =>
        \A q1 \in GetQueries, q2 \in GetQueries :
            /\ query[q1].pc # "pending"
            /\ (query[q1].target = query[q2].target
                /\ query[q1].pc = "ready" /\ query[q2].pc = "ready")
               => query[q1].result = query[q2].result

\* C2: a list_all() query is resolved only when progress is Done, and its
\* result holds exactly the names whose content parsed, each once.
C2_ListAllExact ==
    \A q \in ListQueries :
        query[q].pc = "ready" =>
            /\ ProgressDone
            /\ NamesOf(query[q].result) = ParsedNames
            /\ Len(query[q].result) = Cardinality(ParsedNames)

\* a list_all() resolved with one feature while another file was read and
\* found malformed
C2_Witness ==
    \E q \in ListQueries :
        /\ query[q].pc = "ready"
        /\ Len(query[q].result) = 1
        /\ \E k \in FileNames : reads[k] > 0 /\ dir[k] = "malformed"

FlagName(fileName) ==
    CASE fileName = "a.json" -> "a"
      [] fileName = "b.json" -> "b"
      [] fileName = "c.json" -> "c"
      [] OTHER -> fileName

\* C4 as stated: get(n) resolves to a record exactly when n is the flag of a
\* file whose content parsed (get("a") is present for a valid a.json), and
\* to absent otherwise.
C4_PresentIffFlagParsed ==
    \A q \in GetQueries :
        query[q].pc = "ready" =>
            (query[q].result # None
                <=> \E f \in ParsedNames : FlagName(f) = query[q].target)

\* C4 amended: get(n) resolves to the record stored for n exactly when n is
\* the file name, extension included, of a file whose content parsed, and to
\* absent for every other n (malformed, never in the directory, or a stem);
\* list_all() resolves to the records of those files.
C4_PresentIffFileParsed ==
    /\ \A q \in GetQueries :
          query[q].pc = "ready" =>
              query[q].result =
                  IF query[q].target \in ParsedNames
                  THEN Some([def |-> query[q].target])
                  ELSE None
    /\ \A q \in ListQueries :
          query[q].pc = "ready" => NamesOf(query[q].result) = ParsedNames

\* the scenario: a.json valid, b.json malformed, c.json missing; get("a.json")
\* resolved present and get("b.json") resolved absent
C4_Witness ==
    /\ dir["a.json"] = "valid" /\ dir["b.json"] = "malformed"
    /\ \E q1 \in GetQueries, q2 \in GetQueries :
        /\ query[q1].target = "a.json" /\ query[q1].pc = "ready"
        /\ query[q1].result = Some([def |-> "a.json"])
        /\ query[q2].target = "b.json" /\ query[q2].pc = "ready"
        /\ query[q2].result = None

\* the names that are not in the directory
NeverPresent == {k \in Keys : k \notin FileNames \/ dir[k] = "missing"}

\* C5: a get(name) for a name that is not in the directory never resolves to
\* a record: whenever it is resolved, it is resolved to absent.
C5_NoFalsePositive ==
    \A q \in GetQueries :
        (query[q].pc = "ready" /\ query[q].target \in NeverPresent)
            => query[q].result = None

\* a get of a name that is in no directory resolved while the cache holds a
\* record of another name
C5_Witness ==
    \E q \in GetQueries :
        /\ query[q].pc = "ready"
        /\ query[q].target \in NeverPresent
        /\ \E k \in Keys : cache[k] # None

\* the Loader ended on a failure of read_dir or next_entry
EnumerationFailed == loader.pc = "panicked" /\ lf[Loader].pc # "panicked"

\* C6: when enumerating the directory fails, progress is Done once the
\* Loader has ended.
C6_EnumerationFailureReachesDone ==
    EnumerationFailed => ProgressDone

\* C7: a failure to read one entry's content does not stop the Loader.
C7_ReadFailureIsLocal ==
    lf[Loader].pc = "panicked" => loader.pc # "panicked"

\* C8: when a load_feature that claimed its name has returned, the name is
\* out of the in-flight set and the wakers of the name were woken.
C8_ReleaseThenWake ==
    \A t \in Tasks :
        (lf[t].pc = "returned" /\ lf[t].claimed) =>
            /\ ProgressDone \/ lf[t].name \notin load_progress.features
            /\ lf[t].woke

\* C9: the step that takes progress from Loading to Done finds the
\* in-flight set empty.
C9_FinishOnlyWhenReleased ==
    [][(~ProgressDone /\ ProgressDone')
          => load_progress.features = {}]_vars

\* C10: progress starts as Loading and, once Done, no step makes it
\* anything else.
C10_OneDirectional ==
    /\ load_progress = Loading({})
    /\ [][ProgressDone => ProgressDone']_vars

\* progress is Done, a load_feature called on its own for a name no other
\* task asked for found it Done and returned, and a query has resolved
C10_Witness ==
    /\ ProgressDone
    /\ \E t \in Tasks \ {Loader} :
        /\ lf[t].pc = "returned" /\ ~lf[t].claimed
        /\ \A u \in Tasks \ {t} : lf[u].name # lf[t].name
    /\ \E q \in Queries : query[q].pc = "ready"

\* the queries whose waker is in no registry
Unregistered ==
    {q \in Queries :
        /\ q \notin WakersIn(done_wakers)
        /\ \A k \in DOMAIN feature_wakers : q \notin WakersIn(feature_wakers[k])}

\* C11: once progress is Done, a poll of a query resolves it at once, leaves
\* the cache, the progress and both waker registries as they were, and yields
\* the result every earlier query of the same argument got.
C11_DonePollsArePure ==
    [][\A q \in Queries :
          (ProgressDone /\ query[q].pc = "start" /\ query'[q] # query[q]) =>
              /\ query'[q].pc = "ready"
              /\ UNCHANGED <<cache, load_progress, done_wakers, feature_wakers>>
              /\ \A p \in Queries :
                    (query[p].pc = "ready" /\ query[p].target = query[q].target)
                        => query'[q].result = query[p].result]_vars

\* two queries of one name that never registered a waker, both resolved to
\* the cached record after the Loader ended
C11_Witness ==
    /\ loader.pc = "done"
    /\ \E p \in Unregistered, q \in Unregistered :
        /\ p # q
        /\ query[p].target = query[q].target
        /\ query[p].pc = "ready" /\ query[q].pc = "ready"
        /\ query[p].result # None
        /\ query[p].result = query[q].result

EntriesSettled ==
    /\ Entries \subseteq loader.scanned
    /\ lf[Loader].pc \in {"idle", "returned"}
    /\ \A k \in ParsedNames : cache[k] # None

\* C13: whenever a suspended list_all() query is woken, progress is Done by
\* then and every directory entry has its final outcome.
C13_GlobalWakeAfterFinish ==
    [][\A q \in ListQueries :
          (query[q].pc = "pending" /\ query'[q].pc = "start")
              => ProgressDone' /\ EntriesSettled]_vars

\* a list_all() that registered has just been woken by the Loader, with one
\* name in the cache and another found malformed
C13_Witness ==
    /\ loader.pc = "wake_features"
    /\ \E q \in ListQueries :
          query[q].pc = "start" /\ q \in WakersIn(done_wakers)
    /\ \E k \in FileNames : cache[k] # None
    /\ \E k \in FileNames : reads[k] > 0 /\ dir[k] = "malformed"

\* C14: the waker of every get(name) query that registered and is suspended
\* is in the waiter list of its name: no registration drops another's.
C14_RegistrationKept ==
    \A q \in GetQueries :
        query[q].pc = "pending" =>
            /\ query[q].target \in DOMAIN feature_wakers
            /\ q \in WakersIn(feature_wakers[query[q].target])

\* C15: done_wakers never changes in a step that ends with progress Done,
\* and a suspended list_all() query is in done_wakers with progress still
\* Loading (so the Loader finds it there when it wakes the list).
C15_GlobalWaitersOnlyWhileLoading ==
    [][/\ done_wakers' # done_wakers => ~ProgressDone'
       /\ \A q \in ListQueries :
             query'[q].pc = "pending"
                 => ~ProgressDone' /\ q \in WakersIn(done_wakers')]_vars

\* a list_all() that had registered was woken at Done and has resolved
C15_Witness ==
    /\ loader.pc = "done"
    /\ \E q \in ListQueries :
          query[q].pc = "ready" /\ q \in WakersIn(done_wakers)

\* C16: once the Loader has woken the global waiters, done_wakers is empty;
\* once the Loader has ended and every query has resolved, no per-name list
\* holds a waker; and only names that a query asked for have an entry.
C16_WaitersDrained ==
    /\ loader.pc = "done" => done_wakers = <<>>
    /\ (loader.pc = "done" /\ \A q \in Queries : query[q].pc = "ready")
          => \A k \in DOMAIN feature_wakers : feature_wakers[k] = <<>>
    /\ \A k \in DOMAIN feature_wakers :
          \E q \in GetQueries : query[q].target = k

\* C17: a poll of a query that is registered and was not woken since (a
\* list_all() in done_wakers, or a get of a name that is in no directory and
\* is in its name's list, with progress Loading) returns Pending and leaves
\* both registries, the cache and the progress as they were.
C17_RepollIdempotent ==
    [][\A q \in Queries :
          (/\ ~ProgressDone
           /\ query'[q] # query[q]
           /\ \/ /\ q \in ListQueries
                 /\ query[q].pc = "start"
                 /\ q \in WakersIn(done_wakers)
              \/ /\ q \in GetQueries
                 /\ query[q].pc = "checked" /\ ~query[q].notified
                 /\ query[q].target \in NeverPresent
                 /\ query[q].target \in DOMAIN feature_wakers
                 /\ q \in WakersIn(feature_wakers[query[q].target]))
          => /\ query'[q].pc = "pending"
             /\ UNCHANGED <<done_wakers, feature_wakers, cache, load_progress>>]_vars

\* how many times waker q is in a Vec<Waker>
Copies(vec, q) == Cardinality({i \in 1 .. Len(vec) : vec[i] = q})

\* C18: a poll of get(name) yields a result exactly when progress is Done as
\* it checks it; with progress Loading it goes on to register its waker in
\* the list of its name and returns Pending, whatever the cache holds.
C18_GetResolvesIffDone ==
    [][\A q \in GetQueries :
          /\ (query[q].pc = "start" /\ query'[q] # query[q])
                => /\ query'[q].pc = "ready" <=> ProgressDone
                   /\ query'[q].pc = "checked" <=> ~ProgressDone
          /\ (query[q].pc # "ready" /\ query'[q].pc = "ready")
                => query[q].pc = "start"
          /\ (query[q].pc \in {"checked", "insert"}
              /\ query'[q].pc \notin {"checked", "insert"})
                => /\ query'[q].pc \in {"pending", "start"}
                   /\ q \in WakersIn(feature_wakers'[query[q].target])]_vars

\* progress is Loading, the record of a name is in the cache, and a get of
\* that name, woken by the end of that load, has registered a second time
\* and is suspended
C18_Witness ==
    /\ ~ProgressDone
    /\ \E q \in GetQueries :
        /\ cache[query[q].target] # None
        /\ query[q].pc = "pending"
        /\ query[q].target \in DOMAIN feature_wakers
        /\ Copies(feature_wakers[query[q].target], q) = 2

\* C19: once the Loader has set progress to Done and woken the per-name
\* waiters it found, no waker is added to feature_wakers.
C19_NoRegistrationAfterWake ==
    [][loader.pc = "done" => feature_wakers' = feature_wakers]_vars

(* ------------------- the locks, one step per section ------------------- *)

\* The specifications above take a critical section as one step. Here the
\* two mutexes are taken and released in steps of their own: "P" is
\* load_progress, "D" is done_wakers. Who holds a lock follows from where
\* each task is. The shard locks of the two DashMaps are held only inside
\* one map operation, which takes no other lock, and stay inside a step.

\* the tasks that take locks: the Loader and the tasks polling the queries
LockTasks == {Loader} \cup Queries

\* a list poll that registers before it looks at the progress
ListLockOrderInverted == <<"D", "P">>

\* the order in which FeatureListFuture::poll takes its locks
ListLockOrder == <<"P", "D">>

\* the locks task t holds
HeldBy(t) ==
    IF t = Loader
    THEN CASE loader.pc = "finish_locked" -> {"P"}
           [] loader.pc = "finish_wake" -> {"P", "D"}
           [] loader.pc = "wake_features" -> {"P"}
           [] OTHER -> {}
    ELSE CASE query[t].pc = "list_1" -> {ListLockOrder[1]}
           [] query[t].pc = "list_2" -> {"P", "D"}
           [] OTHER -> {}

\* a list poll holding load_progress sees it Done: it needs no other lock
ListSeesDone(q) == "P" \in HeldBy(q) /\ is_done(load_progress)

\* the lock task t is about to take, if any
Wants(t) ==
    IF t = Loader
    THEN CASE loader.pc = "finish" -> {"P"}
           [] loader.pc = "finish_locked" -> {"D"}
           [] loader.pc = "loop" /\ lf[Loader].pc \in {"claim", "release"} -> {"P"}
           [] OTHER -> {}
    ELSE CASE query[t].pc = "start" /\ query[t].target = ListTarget
                -> {ListLockOrder[1]}
           [] query[t].pc = "start" /\ query[t].target # ListTarget -> {"P"}
           [] query[t].pc = "list_1" /\ ~ListSeesDone(t) -> {ListLockOrder[2]}
           [] OTHER -> {}

\* Mutex::lock returns only when nobody holds the mutex
Free(lock) == \A t \in LockTasks : lock \notin HeldBy(t)

\* line 137-138: the Loader locks load_progress and sets it Done
FinishLock ==
    /\ loader.pc = "finish"
    /\ Free("P")
    /\ load_progress' = Done
    /\ loader' = [loader EXCEPT !.pc = "finish_locked"]
    /\ UNCHANGED <<dir, cache, done_wakers, feature_wakers, lf, query, reads,
                   repolls>>

\* line 140: the Loader locks done_wakers
FinishLockWakers ==
    /\ loader.pc = "finish_locked"
    /\ Free("D")
    /\ loader' = [loader EXCEPT !.pc = "finish_wake"]
    /\ UNCHANGED <<dir, cache, load_progress, done_wakers, feature_wakers, lf,
                   query, reads, repolls>>

\* lines 140-142: the done_wakers are woken and their lock is dropped
FinishWake ==
    /\ loader.pc = "finish_wake"
    /\ query' = WakeEach(query, WakersIn(done_wakers))
    /\ loader' = [loader EXCEPT !.pc = "wake_features"]
    /\ UNCHANGED <<dir, cache, load_progress, done_wakers, feature_wakers, lf,
                   reads, repolls>>

\* lines 153-165 and 184-189 of load_feature, each under load_progress
LockedLoadClaim == Free("P") /\ LoadClaim(Loader)
LockedLoadRelease == Free("P") /\ LoadRelease(Loader)

\* line 73: is_done_loading() locks load_progress for the test
LockedGetCheck(q) == Free("P") /\ GetCheck(q)

\* line 45: the list poll takes its first lock
ListLock(q) ==
    /\ query[q].target = ListTarget
    /\ query[q].pc = "start"
    /\ Free(ListLockOrder[1])
    /\ query' = [query EXCEPT ![q].pc = "list_1"]
    /\ UNCHANGED <<dir, cache, load_progress, done_wakers, feature_wakers,
                   loader, lf, reads, repolls>>

\* lines 46-52: progress is Done; the poll resolves and drops its lock
ListMatchDone(q) ==
    /\ query[q].pc = "list_1"
    /\ ListSeesDone(q)
    /\ query' = [query EXCEPT ![q] = Resolve(@, Snapshot(cache))]
    /\ UNCHANGED <<dir, cache, load_progress, done_wakers, feature_wakers,
                   loader, lf, reads, repolls>>

\* lines 53-56: progress is Loading; the poll takes its second lock
ListLockWakers(q) ==
    /\ query[q].pc = "list_1"
    /\ ~ListSeesDone(q)
    /\ Free(ListLockOrder[2])
    /\ query' = [query EXCEPT ![q].pc = "list_2"]
    /\ UNCHANGED <<dir, cache, load_progress, done_wakers, feature_wakers,
                   loader, lf, reads, repolls>>

\* lines 57-58: the waker is pushed, both locks are dropped, Pending
ListPush(q) ==
    /\ query[q].pc = "list_2"
    /\ done_wakers' = Append(done_wakers, q)
    /\ query' = [query EXCEPT ![q] = Suspend(@)]
    /\ UNCHANGED <<dir, cache, load_progress, feature_wakers, loader, lf,
                   reads, repolls>>

NextLocks ==
    \/ ReadDirOk
    \/ ReadDirFail
    \/ \E n \in FileNames : NextEntryFile(n)
    \/ \E n \in FileNames : NextEntrySkip(n)
    \/ NextEntryFail
    \/ NextEntryNone
    \/ FinishLock
    \/ FinishLockWakers
    \/ FinishWake
    \/ WakeFeatures
    \/ LockedLoadClaim
    \/ LoadRead(Loader)
    \/ LoadReadFail(Loader)
    \/ LoadInsert(Loader)
    \/ LockedLoadRelease
    \/ LoadWake(Loader)
    \/ \E q \in Queries :
          \/ ListLock(q)
          \/ ListMatchDone(q)
          \/ ListLockWakers(q)
          \/ ListPush(q)
          \/ LockedGetCheck(q)
          \/ GetLookup(q)
          \/ GetInsert(q)

\* the program with each acquisition of load_progress and done_wakers a step
SpecLocks == Init /\ [][NextLocks]_vars

\* some tasks each wait for a lock that one of them holds
Deadlocked ==
    \E S \in SUBSET LockTasks :
        /\ S # {}
        /\ \A t \in S : \E u \in S : Wants(t) \cap HeldBy(u) # {}

\* C20: no two tasks hold one lock, and in no reachable state do tasks wait
\* in a circle for locks that they hold themselves.
C20_DeadlockFree ==
    /\ \A t \in LockTasks, u \in LockTasks :
          t # u => HeldBy(t) \cap HeldBy(u) = {}
    /\ ~Deadlocked

\* the Loader holds load_progress and is about to take done_wakers while a
\* list poll and a get poll both wait for load_progress
C20_Witness ==
    /\ loader.pc = "finish_locked"
    /\ \E p \in Queries, q \in Queries :
        /\ query[p].target = ListTarget /\ query[q].target # ListTarget
        /\ Wants(p) = {"P"} /\ Wants(q) = {"P"}

====
